---- MODULE Spec2Model ----
(***************************************************************************)
(* rsid-cli (tools/rsid-cli/main.cc): the host-side faceprint database     *)
(* s_user_faceprint_db, the server-mode commands 'E', 'A', 'U', 'D' of     *)
(* sample_loop with their extraction callbacks, and the pose tracker of    *)
(* the device-mode enroll callback MyEnrollClbk.                           *)
(***************************************************************************)
EXTENDS Integers, Sequences, FiniteSets, TLC

\* ------------------------------------------------------------------ bounds
\* Number of distinct non-zero descriptor vectors the device can extract.
MaxVec == 2
\* Largest template format version and descriptor count the device reports.
MaxVersion == 2
MaxDescriptors == 2
\* Largest featuresType tag the device reports (0 is the first enumerator).
MaxFeaturesType == 1

\* ------------------------------------------------------------- data model
\* No vector at all: a null payload, an untouched updated_faceprints.
NoVec == -1
\* A descriptor vector is compared and copied as a whole (memcpy), so it is
\* modelled by an identifier; ZeroVec is the all-zero vector of a
\* value-initialised Faceprints.
ZeroVec == 0
Vecs == 1..MaxVec
Versions == 1..MaxVersion
DescriptorCounts == 1..MaxDescriptors
FeatureTypes == 0..MaxFeaturesType

\* user ids are std::string; a character is modelled by its code.  The menu
\* loop rejects the empty string.
UserIds == {<<1, 2>>, <<2>>}

\* std::string operator<, the key order of std::map<std::string, Faceprints>.
StrLess(a, b) ==
    \E i \in 1..(Len(a) + 1) :
        /\ i <= Len(b)
        /\ \A j \in 1..(i - 1) : a[j] = b[j]
        /\ (i = Len(a) + 1 \/ a[i] < b[i])

\* The Faceprints payload handed to an extraction callback.
Faceprints ==
    [version : Versions, numberOfDescriptors : DescriptorCounts,
     featuresType : FeatureTypes, avgDescriptor : Vecs, origDescriptor : Vecs]

\* The null payload of a failed extraction.
NoFaceprints ==
    [version |-> 0, numberOfDescriptors |-> 0, featuresType |-> 0,
     avgDescriptor |-> NoVec, origDescriptor |-> NoVec]

\* RealSenseID::Faceprints() as std::map::operator[] inserts it.
ValueInitFaceprints ==
    [version |-> 0, numberOfDescriptors |-> 0, featuresType |-> 0,
     avgDescriptor |-> ZeroVec, origDescriptor |-> ZeroVec]

\* The descriptor is present only when the status is Success.
Payloads(st) == IF st = "Success" THEN Faceprints ELSE {NoFaceprints}

EnrollStatuses == {"Success", "NoFaceDetected", "Failure"}
AuthenticateStatuses == {"Success", "NoFaceDetected", "Forbidden"}

\* The verdict of FaceAuthenticator::MatchFaceprints.  avg is the average
\* vector it leaves in updated_faceprints when it asks for an update.
MatchResults ==
    { m \in [success : BOOLEAN, should_update : BOOLEAN, avg : Vecs \cup {NoVec}] :
        m.should_update <=> (m.avg # NoVec) }

VARIABLES
    s_user_faceprint_db,  \* user id -> Faceprints
    pc,                   \* where sample_loop is
    _user_id,             \* MyEnrollServerClbk::_user_id of the running 'E'
    status,               \* status handed to the last OnResult of the command
    faceprints,           \* payload handed to the last enroll OnResult
    matches,              \* MatchFaceprints calls of the running 'A', in order
    out,                  \* result lines printed by the running command
    listing,              \* user ids printed by the running 'U'
    cleared,              \* entries removed by the last 'D' with no write since
    _poses_required,      \* MyEnrollClbk::_poses_required of the running 'e'
    observed,             \* poses handed to OnProgress since its construction
    guidance              \* lines printed by the last MyEnrollClbk::OnProgress

pose_vars == <<_poses_required, observed, guidance>>
db_vars == <<s_user_faceprint_db, _user_id, faceprints, matches, out, listing,
             cleared>>
vars == <<pc, status, db_vars, pose_vars>>

NoUser == <<>>
NoStatus == "none"
NotCleared == -1

\* ------------------------------------------------------------ the database
EmptyDb == [u \in {} |-> ValueInitFaceprints]

RECURSIVE Keys(_)
\* Faulty variant of MinKey: the greatest key, as under std::greater.
MaxKey(S) == CHOOSE k \in S : \A j \in S \ {k} : StrLess(j, k)

MinKey(S) == CHOOSE k \in S : \A j \in S \ {k} : StrLess(k, j)
\* The keys of a std::map in iteration order.
Keys(S) == IF S = {} THEN <<>> ELSE <<MinKey(S)>> \o Keys(S \ {MinKey(S)})

\* s_user_faceprint_db[user_id]: inserts a value-initialised entry if absent.
Subscript(db, user_id) ==
    IF user_id \in DOMAIN db THEN db ELSE db @@ (user_id :> ValueInitFaceprints)

\* Faulty variant of EnrollStore: the original vector is taken from the
\* payload's own origDescriptor instead of its average vector.
EnrollStoreOrigFromPayload(db, user_id, fp) ==
    LET d == Subscript(db, user_id) IN
    [d EXCEPT ![user_id].version = fp.version,
              ![user_id].numberOfDescriptors = fp.numberOfDescriptors,
              ![user_id].avgDescriptor = fp.avgDescriptor,
              ![user_id].origDescriptor = fp.origDescriptor]

\* MyEnrollServerClbk::OnResult, the Success branch: four assignments through
\* s_user_faceprint_db[_user_id]; featuresType is not among them.
EnrollStore(db, user_id, fp) ==
    LET d == Subscript(db, user_id) IN
    [d EXCEPT ![user_id].version = fp.version,
              ![user_id].numberOfDescriptors = fp.numberOfDescriptors,
              ![user_id].avgDescriptor = fp.avgDescriptor,
              ![user_id].origDescriptor = fp.avgDescriptor]

\* Faulty variant of EnrollResult: the status is not tested before storing.
EnrollResultUnchecked(db, user_id, st, fp) == EnrollStore(db, user_id, fp)

\* The database after MyEnrollServerClbk::OnResult(st, fp).
EnrollResult(db, user_id, st, fp) ==
    IF st = "Success" THEN EnrollStore(db, user_id, fp) ELSE db

\* Faulty variant of ClearDb: erases the first entry only.
ClearDbEraseBegin(db) ==
    IF DOMAIN db = {}
    THEN db
    ELSE [u \in DOMAIN db \ {MinKey(DOMAIN db)} |-> db[u]]

\* s_user_faceprint_db.clear()
ClearDb(db) == EmptyDb

\* ------------------------------------------------------------- the matcher
\* updated_faceprints after MatchFaceprints(scanned, existing, updated): it
\* starts as a copy of the stored entry (line 514) and the library replaces
\* only its average vector, when it asks for an update.
MatchFaceprintsUpdated(existing, match) ==
    IF match.should_update
    THEN [existing EXCEPT !.avgDescriptor = match.avg]
    ELSE existing

\* Faulty variant of SaveUpdated: the updated template is stored through an
\* iterator that was reset to the first entry of the database.
SaveUpdatedAtBegin(db, user_id, updated) ==
    [db EXCEPT ![MinKey(DOMAIN db)] = updated]

\* Faulty variant of SaveUpdated: refreshes both vectors of the entry, as an
\* enrollment does.
SaveUpdatedBothVectors(db, user_id, updated) ==
    [db EXCEPT ![user_id] =
        [updated EXCEPT !.origDescriptor = updated.avgDescriptor]]

\* iter.second = updated_faceprint
SaveUpdated(db, user_id, updated) == [db EXCEPT ![user_id] = updated]

Line(msg, user_id) == [msg |-> msg, user_id |-> user_id]

\* Faulty variant of MatchStep: no break after a match.
MatchStepNoBreak(db, user_id, match) ==
    IF match.success
    THEN [db |-> IF match.should_update
                 THEN SaveUpdated(db, user_id,
                                  MatchFaceprintsUpdated(db[user_id], match))
                 ELSE db,
          out |-> <<Line("Match success", user_id)>>
                  \o (IF match.should_update
                      THEN <<Line("Updated avg faceprint in db", NoUser)>>
                      ELSE <<>>),
          break |-> FALSE]
    ELSE [db |-> db,
          out |-> <<Line("Forbidden (no faceprint matched)", NoUser)>>,
          break |-> FALSE]

\* Faulty variant of MatchStep: should_update is honoured before success is
\* tested.
MatchStepUpdateBeforeSuccess(db, user_id, match) ==
    LET saved == IF match.should_update
                 THEN SaveUpdated(db, user_id,
                                  MatchFaceprintsUpdated(db[user_id], match))
                 ELSE db
    IN  IF match.success
        THEN [db |-> saved,
              out |-> <<Line("Match success", user_id)>>
                      \o (IF match.should_update
                          THEN <<Line("Updated avg faceprint in db", NoUser)>>
                          ELSE <<>>),
              break |-> TRUE]
        ELSE [db |-> saved,
              out |-> <<Line("Forbidden (no faceprint matched)", NoUser)>>,
              break |-> FALSE]

\* One iteration of the loop over s_user_faceprint_db: the database and the
\* lines printed after it, and whether it left the loop by break.
MatchStep(db, user_id, match) ==
    IF match.success
    THEN [db |-> IF match.should_update
                 THEN SaveUpdated(db, user_id,
                                  MatchFaceprintsUpdated(db[user_id], match))
                 ELSE db,
          out |-> <<Line("Match success", user_id)>>
                  \o (IF match.should_update
                      THEN <<Line("Updated avg faceprint in db", NoUser)>>
                      ELSE <<>>),
          break |-> TRUE]
    ELSE [db |-> db,
          out |-> <<Line("Forbidden (no faceprint matched)", NoUser)>>,
          break |-> FALSE]

\* for (auto& iter : s_user_faceprint_db) over the keys still to visit;
\* oracle gives the verdict MatchFaceprints returns for each entry.
RECURSIVE MatchLoop(_, _, _)
MatchLoop(keys, oracle, acc) ==
    IF keys = <<>>
    THEN acc
    ELSE LET user_id == Head(keys)
             step == MatchStep(acc.db, user_id, oracle[user_id])
             next == [db |-> step.db,
                      matches |-> Append(acc.matches,
                                         [user_id |-> user_id,
                                          match |-> oracle[user_id]]),
                      out |-> acc.out \o step.out]
         IN  IF step.break THEN next ELSE MatchLoop(Tail(keys), oracle, next)

\* The verdicts MatchFaceprints can return for the stored entries; it is not
\* called at all when the extraction failed.
NoOracle == [u \in {} |-> [success |-> FALSE, should_update |-> FALSE, avg |-> NoVec]]
Oracles(st, users) ==
    IF st = "Success" THEN [users -> MatchResults] ELSE {NoOracle}

\* FaceprintsAuthClbk::OnResult after a successful extraction.
MatchScan(db, oracle) ==
    MatchLoop(Keys(DOMAIN db), oracle, [db |-> db, matches |-> <<>>, out |-> <<>>])

\* FaceprintsAuthClbk::OnResult(st, faceprints): the database, the calls of
\* MatchFaceprints and the lines printed.
AuthResult(db, st, oracle) ==
    IF st # "Success"
    THEN [db |-> db, matches |-> <<>>,
          out |-> <<Line("ExtractFaceprints failed", NoUser)>>]
    ELSE MatchScan(db, oracle)

\* ------------------------------------------------------------------- Init
Init ==
    /\ s_user_faceprint_db = EmptyDb
    /\ pc = "menu"
    /\ _user_id = NoUser
    /\ status = NoStatus
    /\ faceprints = NoFaceprints
    /\ matches = <<>>
    /\ out = <<>>
    /\ listing = <<>>
    /\ cleared = NotCleared
    /\ _poses_required = {}
    /\ observed = {}
    /\ guidance = <<>>

\* ------------------------------------------------ server mode: 'E' enroll
\* case 'E': enroll_faceprints(user_id) up to the blocking extraction call.
Key_E(user_id) ==
    /\ pc = "menu"
    /\ pc' = "enroll_faceprints"
    /\ _user_id' = user_id
    /\ UNCHANGED <<s_user_faceprint_db, status, faceprints, matches, out,
                   listing, cleared, pose_vars>>

\* MyEnrollServerClbk::OnProgress and OnHint only print.
EnrollServerOnProgress ==
    /\ pc = "enroll_faceprints"
    /\ UNCHANGED vars

EnrollServerOnHint ==
    /\ pc = "enroll_faceprints"
    /\ UNCHANGED vars

\* MyEnrollServerClbk::OnResult(status, faceprints)
EnrollServerOnResult(st, fp) ==
    /\ pc = "enroll_faceprints"
    /\ s_user_faceprint_db' = EnrollResult(s_user_faceprint_db, _user_id, st, fp)
    /\ cleared' = IF st = "Success" THEN NotCleared ELSE cleared
    /\ status' = st
    /\ faceprints' = fp
    /\ pc' = "enroll_result"
    /\ UNCHANGED <<_user_id, matches, out, listing, pose_vars>>

\* ExtractFaceprintsForEnroll returns an error Status before any callback.
EnrollExtractFailed ==
    /\ pc = "enroll_faceprints"
    /\ pc' = "enroll_result"
    /\ UNCHANGED <<status, db_vars, pose_vars>>

\* ------------------------------------------ server mode: 'A' authenticate
Key_A ==
    /\ pc = "menu"
    /\ pc' = "authenticate_faceprints"
    /\ UNCHANGED <<status, db_vars, pose_vars>>

FaceprintsAuthOnHint ==
    /\ pc = "authenticate_faceprints"
    /\ UNCHANGED vars

\* FaceprintsAuthClbk::OnResult(status, faceprints).  The scanned payload is
\* only handed on to MatchFaceprints, whose verdicts are the oracle.
FaceprintsAuthOnResult(st, oracle) ==
    /\ pc = "authenticate_faceprints"
    /\ LET scan == AuthResult(s_user_faceprint_db, st, oracle)
       IN  /\ s_user_faceprint_db' = scan.db
           /\ matches' = scan.matches
           /\ out' = scan.out
    /\ status' = st
    /\ pc' = "auth_result"
    /\ UNCHANGED <<_user_id, faceprints, listing, cleared, pose_vars>>

AuthExtractFailed ==
    /\ pc = "authenticate_faceprints"
    /\ pc' = "auth_result"
    /\ UNCHANGED <<status, db_vars, pose_vars>>

\* ------------------------------------------------ server mode: 'U' and 'D'
Key_U ==
    /\ pc = "menu"
    /\ listing' = Keys(DOMAIN s_user_faceprint_db)
    /\ pc' = "listed"
    /\ UNCHANGED <<s_user_faceprint_db, _user_id, status, faceprints, matches,
                   out, cleared, pose_vars>>

Key_D ==
    /\ pc = "menu"
    /\ s_user_faceprint_db' = ClearDb(s_user_faceprint_db)
    /\ cleared' = Cardinality(DOMAIN s_user_faceprint_db)
    /\ pc' = "deleted"
    /\ UNCHANGED <<_user_id, status, faceprints, matches, out, listing,
                   pose_vars>>

Key_q ==
    /\ pc = "menu"
    /\ pc' = "quit"
    /\ UNCHANGED <<status, db_vars, pose_vars>>

\* break out of the switch: the callback object and the printed lines of the
\* command are gone when the loop shows the menu again.
LoopAgain ==
    /\ pc \in {"enroll_result", "auth_result", "listed", "deleted"}
    /\ pc' = "menu"
    /\ _user_id' = NoUser
    /\ status' = NoStatus
    /\ faceprints' = NoFaceprints
    /\ matches' = <<>>
    /\ out' = <<>>
    /\ listing' = <<>>
    /\ UNCHANGED <<s_user_faceprint_db, cleared, pose_vars>>

Next ==
    \/ \E user_id \in UserIds : Key_E(user_id)
    \/ EnrollServerOnProgress
    \/ EnrollServerOnHint
    \/ \E st \in EnrollStatuses :
          \E fp \in Payloads(st) : EnrollServerOnResult(st, fp)
    \/ EnrollExtractFailed
    \/ Key_A
    \/ FaceprintsAuthOnHint
    \/ \E st \in AuthenticateStatuses :
          \E oracle \in Oracles(st, DOMAIN s_user_faceprint_db) :
             FaceprintsAuthOnResult(st, oracle)
    \/ AuthExtractFailed
    \/ Key_U
    \/ Key_D
    \/ Key_q
    \/ LoopAgain

Spec == Init /\ [][Next]_vars

\* ----------------------------------------- device mode: 'e', MyEnrollClbk
\* RealSenseID::FacePose and the value of each enumerator, which is the
\* order std::set<FacePose> keeps.
FacePoses == {"Center", "Up", "Down", "Left", "Right"}
PoseRank ==
    [p \in FacePoses |->
        CASE p = "Center" -> 0 [] p = "Up" -> 1 [] p = "Down" -> 2
          [] p = "Left" -> 3 [] p = "Right" -> 4]

\* _poses_required = {FacePose::Center, FacePose::Left, FacePose::Right}
InitialPosesRequired == {"Center", "Left", "Right"}

\* Faulty variant of Begin: the last element of the set, *rbegin().
BeginLast(required) ==
    CHOOSE p \in required : \A q \in required : PoseRank[p] >= PoseRank[q]

\* *_poses_required.begin()
Begin(required) ==
    CHOOSE p \in required : \A q \in required : PoseRank[p] <= PoseRank[q]

\* Faulty variant of ErasePose: erases the first required pose, whatever
\* pose was detected.
ErasePoseBegin(required, pose) ==
    IF required = {} THEN required ELSE required \ {Begin(required)}

\* _poses_required.erase(pose)
ErasePose(required, pose) == required \ {pose}

PoseLine(msg, pose) == [msg |-> msg, pose |-> pose]

\* The lines MyEnrollClbk::OnProgress prints, given the set after the erase.
ProgressLines(required, pose) ==
    <<PoseLine("Detected Pose", pose)>>
    \o (IF required # {}
        THEN <<PoseLine("Please Look To The", Begin(required))>>
        ELSE <<>>)

\* case 'e': do_enroll constructs MyEnrollClbk and blocks in Enroll.  The
\* user id goes to the device only.
Key_e ==
    /\ pc = "menu"
    /\ pc' = "do_enroll"
    /\ _poses_required' = InitialPosesRequired
    /\ observed' = {}
    /\ guidance' = <<>>
    /\ UNCHANGED <<status, db_vars>>

\* MyEnrollClbk::OnProgress(pose)
EnrollOnProgress(pose) ==
    /\ pc = "do_enroll"
    /\ _poses_required' = ErasePose(_poses_required, pose)
    /\ guidance' = ProgressLines(_poses_required', pose)
    /\ observed' = observed \cup {pose}
    /\ UNCHANGED <<pc, status, db_vars>>

\* MyEnrollClbk::OnHint only prints.
EnrollOnHint ==
    /\ pc = "do_enroll"
    /\ UNCHANGED vars

\* MyEnrollClbk::OnResult(status) only prints; Enroll returns after it.
EnrollOnResult(st) ==
    /\ pc = "do_enroll"
    /\ status' = st
    /\ pc' = "do_enroll_result"
    /\ UNCHANGED <<db_vars, pose_vars>>

\* Enroll returns an error Status before any result callback.
EnrollFailed ==
    /\ pc = "do_enroll"
    /\ pc' = "do_enroll_result"
    /\ UNCHANGED <<status, db_vars, pose_vars>>

\* do_enroll returns: enroll_clbk is destroyed.
EnrollReturn ==
    /\ pc = "do_enroll_result"
    /\ pc' = "menu"
    /\ status' = NoStatus
    /\ _poses_required' = {}
    /\ observed' = {}
    /\ guidance' = <<>>
    /\ UNCHANGED db_vars

PoseNext ==
    \/ Key_e
    \/ \E pose \in FacePoses : EnrollOnProgress(pose)
    \/ EnrollOnHint
    \/ \E st \in EnrollStatuses : EnrollOnResult(st)
    \/ EnrollFailed
    \/ EnrollReturn

\* The device-mode enroll command alone: it neither reads nor writes the
\* faceprint database, and no other command runs while it blocks.
PoseSpec == Init /\ [][PoseNext]_vars

\* ================================================================= claims
db == s_user_faceprint_db
Last(seq) == seq[Len(seq)]
EnrollResultStep == pc = "enroll_faceprints" /\ pc' = "enroll_result"
AuthResultStep == pc = "authenticate_faceprints" /\ pc' = "auth_result"
\* The running 'A' ended in a match that asked for an update.
UpdatedMatch(log) ==
    /\ log # <<>>
    /\ Last(log).match.success
    /\ Last(log).match.should_update
CountLines(lines, msg) == Cardinality({i \in DOMAIN lines : lines[i].msg = msg})

\* C1: after an enroll extraction for user u ends with OnResult(Success,
\* payload), the database holds an entry for u whose origDescriptor and
\* avgDescriptor both equal payload.avgDescriptor.
C1_EnrollSeedsBothVectors ==
    (pc = "enroll_result" /\ status = "Success") =>
        /\ _user_id \in DOMAIN db
        /\ db[_user_id].origDescriptor = faceprints.avgDescriptor
        /\ db[_user_id].avgDescriptor = faceprints.avgDescriptor

\* An enrollment whose payload carried a different origDescriptor has ended.
C1_Witness ==
    /\ pc = "enroll_result" /\ status = "Success"
    /\ faceprints.origDescriptor # faceprints.avgDescriptor
    /\ db[_user_id].origDescriptor = faceprints.avgDescriptor
    /\ db[_user_id].avgDescriptor = faceprints.avgDescriptor

\* C2: when an authentication matches stored user u and MatchFaceprints
\* reports should_update with an updated average V2, then afterwards
\* db[u].avgDescriptor = V2 and db[u].origDescriptor is what it was before
\* that authentication; as this holds of every such step, it holds across
\* any number of them.
C2_UpdateKeepsOrig ==
    [][(AuthResultStep /\ UpdatedMatch(matches')) =>
         LET u == Last(matches').user_id IN
         /\ db'[u].avgDescriptor = Last(matches').match.avg
         /\ db'[u].origDescriptor = db[u].origDescriptor]_vars

\* An update-flagged match has left the average different from the original.
C2_Witness ==
    /\ pc = "auth_result" /\ UpdatedMatch(matches)
    /\ db[Last(matches).user_id].avgDescriptor = Last(matches).match.avg
    /\ db[Last(matches).user_id].origDescriptor # Last(matches).match.avg

\* C3: the scan short-circuits on the first success of MatchFaceprints:
\* the entries it was called on are an initial part of the database in
\* iteration order, every one before the last was rejected, so no entry
\* after a success is passed to it, and at most one entry, the succeeding
\* one, is reported as matched or updated.
C3_ScanShortCircuits ==
    (pc = "auth_result" /\ status = "Success") =>
        LET keys == Keys(DOMAIN db) IN
        /\ Len(matches) <= Len(keys)
        /\ \A i \in DOMAIN matches : matches[i].user_id = keys[i]
        /\ \A i \in DOMAIN matches :
              matches[i].match.success => i = Len(matches)
        /\ CountLines(out, "Match success") <= 1
        /\ CountLines(out, "Updated avg faceprint in db") <= 1
        /\ \A i \in DOMAIN out :
              out[i].msg = "Match success" =>
                 /\ Last(matches).match.success
                 /\ out[i].user_id = Last(matches).user_id

\* The first of two stored entries matched and the second was never passed
\* to MatchFaceprints.
C3_Witness ==
    /\ pc = "auth_result" /\ status = "Success"
    /\ Cardinality(DOMAIN db) = 2
    /\ Len(matches) = 1
    /\ matches[1].match.success
    /\ matches[1].user_id = Keys(DOMAIN db)[1]

\* C4: if MatchFaceprints rejects the scanned template against every stored
\* entry, the authentication leaves the database as it was: the same user
\* ids with the same templates.
C4_NoMatchLeavesDb ==
    [][(AuthResultStep /\ status' = "Success"
        /\ \A i \in DOMAIN matches' : ~matches'[i].match.success)
       => db' = db]_vars

\* Both stored entries were rejected, one of them with should_update set.
C4_Witness ==
    /\ pc = "auth_result" /\ status = "Success"
    /\ Len(matches) = 2
    /\ \A i \in DOMAIN matches : ~matches[i].match.success
    /\ \E i \in DOMAIN matches : matches[i].match.should_update

\* C5: an extraction session, enroll or authenticate, whose OnResult status
\* is not Success does not write the database and does not call
\* MatchFaceprints.
C5_FailureTouchesNothing ==
    [][((EnrollResultStep \/ AuthResultStep)
        /\ status' \notin {"Success", NoStatus})
       => (db' = db /\ matches' = <<>>)]_vars

\* A failed enroll or authenticate extraction has ended on a database that
\* holds entries.
C5_Witness ==
    /\ pc \in {"enroll_result", "auth_result"}
    /\ status \notin {"Success", NoStatus}
    /\ DOMAIN db # {}
    /\ matches = <<>>

\* C6: on a successful enroll result the stored template's version,
\* numberOfDescriptors and featuresType all equal those of the payload.
C6_HeaderCopied ==
    (pc = "enroll_result" /\ status = "Success") =>
        /\ db[_user_id].version = faceprints.version
        /\ db[_user_id].numberOfDescriptors = faceprints.numberOfDescriptors
        /\ db[_user_id].featuresType = faceprints.featuresType

\* C7 as stated: while a user id stays in the database, no step changes its
\* origDescriptor, enrolling the same user id again included.
C7_OrigNeverModified ==
    [][\A u \in DOMAIN db \cap DOMAIN db' :
          db'[u].origDescriptor = db[u].origDescriptor]_vars

\* C7 amended: the origDescriptor of an entry that stays in the database is
\* changed by no authentication and by no enrollment of another user id;
\* the only step that changes it is a successful enrollment of the same
\* user id, which sets it to the newly extracted vector.
C7_OrigChangedOnlyByReEnroll ==
    [][\A u \in DOMAIN db \cap DOMAIN db' :
          db'[u].origDescriptor # db[u].origDescriptor =>
             /\ EnrollResultStep
             /\ status' = "Success"
             /\ _user_id = u
             /\ db'[u].origDescriptor = faceprints'.avgDescriptor]_vars

\* The other user was enrolled while an entry whose average had drifted from
\* its original was in the database.
C7_Witness ==
    /\ pc = "enroll_result" /\ status = "Success"
    /\ \E u \in DOMAIN db \ {_user_id} :
          db[u].origDescriptor # db[u].avgDescriptor

\* C8: an authentication whose extraction succeeded reports exactly one
\* outcome, a match or no match; no match is reported exactly when the whole
\* database (the empty one included) was scanned without a success, and
\* never together with a match.
C8_ExactlyOneOutcome ==
    (pc = "auth_result" /\ status = "Success") =>
        LET matched == CountLines(out, "Match success")
            nomatch == CountLines(out, "Forbidden (no faceprint matched)")
            success == \E i \in DOMAIN matches : matches[i].match.success
        IN  /\ matched + nomatch = 1
            /\ (nomatch = 1) <=> ~success

\* C10: 'D' followed by 'U', with no enrollment written in between, lists
\* no user id, whatever the database held.
C10_ClearThenListEmpty ==
    (pc = "listed" /\ cleared # NotCleared) => listing = <<>>

\* 'U' ran after a 'D' that removed entries.
C10_Witness ==
    /\ pc = "listed"
    /\ cleared > 0
    /\ listing = <<>>

\* C9: the required set of MyEnrollClbk starts as {Center, Left, Right},
\* never grows, is left unchanged by a pose that is not in it, and is empty
\* only after Center, Left and Right have each been handed to OnProgress.
C9_PoseTracker ==
    /\ [][(pc = "menu" /\ pc' = "do_enroll") =>
             _poses_required' = {"Center", "Left", "Right"}]_vars
    /\ [][(pc = "do_enroll" /\ pc' = "do_enroll") =>
             /\ _poses_required' \subseteq _poses_required
             /\ (guidance' # <<>> /\ guidance'[1].pose \notin _poses_required)
                   => _poses_required' = _poses_required]_vars
    /\ []((pc \in {"do_enroll", "do_enroll_result"} /\ _poses_required = {})
             => {"Center", "Left", "Right"} \subseteq observed)

\* The required set is empty after Right, Up, Center and Left were seen.
C9_Witness ==
    /\ pc = "do_enroll"
    /\ _poses_required = {}
    /\ observed = {"Center", "Left", "Right", "Up"}

\* C11: every change of the database is of one of three kinds: an entry for
\* u appears or is replaced only in the result step of an 'E' for u that
\* ended in Success; a stored entry changes otherwise only in the result
\* step of an 'A' that matched that entry with should_update set; entries
\* disappear only in 'D', which removes all of them.  So an authentication,
\* and a match without should_update in particular, keeps the set of user
\* ids and every entry it did not match.
C11_OnlyThreeKindsOfChange ==
    [][LET enrolled(u) == /\ EnrollResultStep
                          /\ status' = "Success"
                          /\ _user_id = u
           updated(u) == /\ AuthResultStep
                         /\ UpdatedMatch(matches')
                         /\ Last(matches').user_id = u
       IN  /\ \A u \in DOMAIN db' \ DOMAIN db : enrolled(u)
           /\ \A u \in DOMAIN db \cap DOMAIN db' :
                 db'[u] # db[u] => (enrolled(u) \/ updated(u))
           /\ DOMAIN db \ DOMAIN db' # {} =>
                 (pc = "menu" /\ pc' = "deleted" /\ DOMAIN db' = {})
           /\ AuthResultStep => DOMAIN db' = DOMAIN db
           /\ (AuthResultStep /\ ~UpdatedMatch(matches')) => db' = db]_vars

\* The second of two stored entries matched without should_update, after
\* the first was rejected with should_update set.
C11_Witness ==
    /\ pc = "auth_result" /\ status = "Success"
    /\ Len(matches) = 2
    /\ ~matches[1].match.success /\ matches[1].match.should_update
    /\ matches[2].match.success /\ ~matches[2].match.should_update

\* C12: after each OnProgress(pose) of MyEnrollClbk, if the required set is
\* not empty exactly one guidance line is printed and it names the first
\* still-required pose in the order Center, Left, Right; if the set is empty
\* no guidance line is printed.
CanonicalNext(required) ==
    IF "Center" \in required THEN "Center"
    ELSE IF "Left" \in required THEN "Left"
    ELSE "Right"

C12_GuidanceNamesNextPose ==
    (pc \in {"do_enroll", "do_enroll_result"} /\ guidance # <<>>) =>
        LET look == {i \in DOMAIN guidance :
                        guidance[i].msg = "Please Look To The"}
        IN  IF _poses_required = {}
            THEN look = {}
            ELSE /\ Cardinality(look) = 1
                 /\ \A i \in look :
                       guidance[i].pose = CanonicalNext(_poses_required)

\* Center was detected first, Up next: Left is asked for while Right is
\* still required as well.
C12_Witness ==
    /\ pc = "do_enroll"
    /\ observed = {"Center", "Up"}
    /\ _poses_required = {"Left", "Right"}
    /\ Len(guidance) = 2
    /\ guidance[1].pose = "Up"
    /\ guidance[2] = PoseLine("Please Look To The", "Left")

RECURSIVE LexBefore(_, _)
LexBefore(a, b) ==
    IF b = <<>> THEN FALSE
    ELSE IF a = <<>> THEN TRUE
    ELSE IF Head(a) # Head(b) THEN Head(a) < Head(b)
    ELSE LexBefore(Tail(a), Tail(b))

C14_AscendingUserIdOrder ==
    /\ pc = "listed" =>
          /\ {listing[i] : i \in DOMAIN listing} = DOMAIN db
          /\ \A i, j \in DOMAIN listing :
                i < j => LexBefore(listing[i], listing[j])
    /\ (pc = "auth_result" /\ matches # <<>> /\ Last(matches).match.success) =>
          LET hit == Last(matches).user_id
              asked == {matches[i].user_id : i \in DOMAIN matches}
          IN  /\ \A i \in DOMAIN out :
                    out[i].msg = "Match success" => out[i].user_id = hit
              /\ \A u \in asked \ {hit} : LexBefore(u, hit)
              /\ \A u \in DOMAIN db \ asked : LexBefore(hit, u)

\* With "ab" and "b" both stored, "ab" matched and "b" was never passed to
\* MatchFaceprints, although "b" is the shorter id.
C14_Witness ==
    /\ pc = "auth_result" /\ status = "Success"
    /\ DOMAIN db = {<<1, 2>>, <<2>>}
    /\ Len(matches) = 1
    /\ matches[1].match.success
    /\ out[1] = Line("Match success", <<1, 2>>)

====
